---- MODULE Spec2Model ----
(***************************************************************************)
(* Bracket and match orchestration of the tournament server:               *)
(* TournamentBracket (generateBracket, submitResult, finalizeMatch,        *)
(* advanceWinner) over the Match collection, and the route that builds a   *)
(* bracket for a tournament.                                               *)
(*                                                                         *)
(* Users are numbered 1..n in roster order; n+1 is a user who is not       *)
(* registered in the tournament.  Match ids are the positions of the       *)
(* matches in allMatches (round 1 first).  None is JavaScript's null /     *)
(* undefined.  A claim's and a result's `scores` is an opaque token.  The  *)
(* clock `now` stands for new Date(): it advances with every submission.   *)
(* A claim's own timestamp is written but never read by any operation and  *)
(* is left out of the claim record.                                        *)
(***************************************************************************)
EXTENDS Integers, Sequences, FiniteSets, TLC

\* ---------------------------------------------------------------- bounds
MaxN == 3          \* largest roster
MaxSubmits == 3    \* submitResult calls in one behaviour of Spec
MaxShort == 2      \* submitResult calls in one behaviour of SpecShort
MaxPlay == 6       \* submitResult calls in one behaviour of SpecPlay
MaxBuild == 5      \* largest roster of SpecBuild
MaxScored == 3     \* submitResult calls in one behaviour of SpecScores
MaxFair == 4       \* largest roster of SpecFair
MaxRaceN == 4      \* largest roster of SpecRace
MaxRace == 4       \* submitResult calls in one behaviour of SpecRace

None == 0

Scores == {1, 2}

\* the one score token the calls of SpecShort carry
OneScore == {1}

Rosters == 0..MaxN

\* ids a caller may pass as userId or winnerId: the roster and one outsider
UserIds(n) == 1..(n + 1)

VARIABLES
    participants,   \* Tournament.participants: the roster, a sequence of user ids
    tournament,     \* the Tournament document: [status, rounds]
    hasBracket,     \* tournamentBrackets.has(tournamentId)
    status,         \* TournamentBracket.status
    shuffled,       \* the shuffled roster the bracket was built from
    matches,        \* the Match collection: a sequence of Match documents
    now,            \* the clock: the number of claims recorded so far
    build,          \* the generateBracket call in progress: [pc, i]
    calls,          \* the submitResult calls in progress, by caller
    requests,       \* the generate-bracket requests made, by caller
    rt              \* the RealtimeManager of a client

vars == <<participants, tournament, hasBracket, status, shuffled, matches, now,
          build, calls, requests, rt>>

\* ------------------------------------------------------------ arithmetic
RECURSIVE Pow2(_)
Pow2(k) == IF k <= 0 THEN 1 ELSE 2 * Pow2(k - 1)

\* Math.ceil(Math.log2(count)) for count >= 1
RECURSIVE CeilLog2From(_, _)
CeilLog2From(count, r) == IF Pow2(r) >= count THEN r ELSE CeilLog2From(count, r + 1)

\* variant: Math.floor in place of Math.ceil
CeilLog2_floor(count) ==
    CHOOSE r \in 0..count : Pow2(r) <= count /\ Pow2(r + 1) > count

CeilLog2(count) == CeilLog2From(count, 0)

\* [...participants].sort(() => 0.5 - Math.random()): some permutation of the roster
Shuffles(n) == {p \in [1..n -> 1..n] : \A i, j \in 1..n : i # j => p[i] # p[j]}

\* -------------------------------------------------------------- Match.js
NoResult == [winner |-> None, scores |-> None, timestamp |-> None]

NoClaims == <<>>

\* new Match({...}): the fields the constructor call leaves out take the
\* schema's defaults
Match(round, player1, player2, winner, st) ==
    [round |-> round, player1 |-> player1, player2 |-> player2,
     winner |-> winner, status |-> st,
     nextMatchId |-> None, nextMatchSlot |-> "none",
     result |-> NoResult, claims |-> NoClaims]

\* match.claims.get(key)
HasClaim(match, key) == key # None /\ key \in DOMAIN match.claims

\* variant: a claim already stored for the user is kept
SetClaim_keepsFirst(claims, userId, claim) ==
    [k \in (DOMAIN claims) \cup {userId} |-> IF k \in DOMAIN claims THEN claims[k] ELSE claim]

\* match.claims.set(userId, claim)
SetClaim(claims, userId, claim) ==
    [k \in (DOMAIN claims) \cup {userId} |-> IF k = userId THEN claim ELSE claims[k]]

\* Match.findById(matchId)
Found(db, matchId) == matchId \in DOMAIN db

\* ------------------------------------------------- TournamentBracket
\* rounds = Math.ceil(Math.log2(count)), as the number of rounds listed by
\* Array.from({length: rounds}): log2(0) is -Infinity, which lists none
RoundCount(count) == IF count = 0 THEN 0 ELSE CeilLog2(count)

\* variant: the bracket is not padded to a power of two
BracketSize_count(count) == count

\* size = Math.pow(2, rounds): 2^-Infinity is 0
BracketSize(count) == IF count = 0 THEN 0 ELSE Pow2(CeilLog2(count))

\* shuffled[i] || null (i counted from 0)
At(shuf, i) == IF i + 1 \in DOMAIN shuf THEN shuf[i + 1] ELSE None

\* variant: a first-round match is scheduled whether or not player2 is there
FirstRoundMatch_byeScheduled(shuf, size, i) ==
    LET player1 == At(shuf, i)
        player2 == At(shuf, size - 1 - i)
    IN  Match(1, player1, player2,
              IF player2 # None THEN None ELSE player1,
              "scheduled")

\* variant: neighbours of the shuffled sequence are paired
FirstRoundMatch_adjacent(shuf, size, i) ==
    LET player1 == At(shuf, 2 * i)
        player2 == At(shuf, 2 * i + 1)
    IN  Match(1, player1, player2,
              IF player2 # None THEN None ELSE player1,
              IF player2 # None THEN "scheduled" ELSE "completed")

\* the i-th first-round match (i counted from 0)
FirstRoundMatch(shuf, size, i) ==
    LET player1 == At(shuf, i)
        player2 == At(shuf, size - 1 - i)
    IN  Match(1, player1, player2,
              IF player2 # None THEN None ELSE player1,
              IF player2 # None THEN "scheduled" ELSE "completed")

\* for (let i = 0; i < size / 2; i++) firstRoundMatches.push(match): size / 2
\* is not rounded, so a size of 1 runs the loop once
firstRoundMatches(shuf, size) ==
    [k \in 1..((size + 1) \div 2) |-> FirstRoundMatch(shuf, size, k - 1)]

\* variant: the second feeder is wired to 'player1' as well
linkPair_sameSlot(all, current, i, newId) ==
    [id \in DOMAIN all |->
        IF id = current[i] \/ (i + 1 \in DOMAIN current /\ id = current[i + 1])
        THEN [all[id] EXCEPT !.nextMatchId = newId, !.nextMatchSlot = "player1"]
        ELSE all[id]]

\* currentRoundMatches[i].nextMatchId = match._id, nextMatchSlot = 'player1';
\* if (currentRoundMatches[i+1]) the same with 'player2'
\* (current holds the ids of the round's matches, i counted from 1)
linkPair(all, current, i, newId) ==
    [id \in DOMAIN all |->
        IF id = current[i]
        THEN [all[id] EXCEPT !.nextMatchId = newId, !.nextMatchSlot = "player1"]
        ELSE IF i + 1 \in DOMAIN current /\ id = current[i + 1]
        THEN [all[id] EXCEPT !.nextMatchId = newId, !.nextMatchSlot = "player2"]
        ELSE all[id]]

\* for (let i = 0; i < currentRoundMatches.length; i += 2): the matches of
\* round r, each linked from its two feeders and pushed to allMatches; yields
\* allMatches and nextRoundMatches
RECURSIVE pairRound(_, _, _, _, _)
pairRound(all, current, r, i, next) ==
    IF i > Len(current) THEN [all |-> all, next |-> next]
    ELSE LET newId == Len(all) + 1
         IN  pairRound(Append(linkPair(all, current, i, newId),
                              Match(r, None, None, None, "pending")),
                       current, r, i + 2, Append(next, newId))

\* for (let r = 2; r <= rounds; r++)
RECURSIVE laterRounds(_, _, _, _)
laterRounds(all, current, r, rounds) ==
    IF r > rounds THEN all
    ELSE LET paired == pairRound(all, current, r, 1, <<>>)
         IN  laterRounds(paired.all, paired.next, r + 1, rounds)

\* allMatches once both creation loops have run
AllMatches(shuf) ==
    LET first == firstRoundMatches(shuf, BracketSize(Len(shuf)))
    IN  laterRounds(first, [k \in 1..Len(first) |-> k], 2, RoundCount(Len(shuf)))

\* variant: the successor is scheduled as soon as a winner is placed in it
markScheduled_always(nextMatch) == [nextMatch EXCEPT !.status = "scheduled"]

\* if (nextMatch.player1 && nextMatch.player2) nextMatch.status = 'scheduled'
markScheduled(nextMatch) ==
    IF nextMatch.player1 # None /\ nextMatch.player2 # None
    THEN [nextMatch EXCEPT !.status = "scheduled"]
    ELSE nextMatch

\* variant: the advancing player is also written to the successor's winner field
placeWinner_setsWinner(nextMatch, slot, winner) ==
    IF slot = "player1" THEN [nextMatch EXCEPT !.player1 = winner, !.winner = winner]
    ELSE IF slot = "player2" THEN [nextMatch EXCEPT !.player2 = winner, !.winner = winner]
    ELSE nextMatch

\* nextMatch[match.nextMatchSlot] = winner
placeWinner(nextMatch, slot, winner) ==
    IF slot = "player1" THEN [nextMatch EXCEPT !.player1 = winner]
    ELSE IF slot = "player2" THEN [nextMatch EXCEPT !.player2 = winner]
    ELSE nextMatch

\* variant: finishing the final leaves this.status as it is
advanceWinner_keepsActive(db, st, matchId, winnerId) ==
    IF ~Found(db, matchId) THEN [db |-> db, status |-> st]
    ELSE LET match == db[matchId] IN
         IF match.nextMatchId # None /\ Found(db, match.nextMatchId)
         THEN LET winner == IF match.player1 = winnerId THEN match.player1
                                                         ELSE match.player2
                  nextMatch == markScheduled(
                                 placeWinner(db[match.nextMatchId],
                                             match.nextMatchSlot, winner))
              IN  [db |-> [db EXCEPT ![match.nextMatchId] = nextMatch], status |-> st]
         ELSE [db |-> db, status |-> st]

\* advanceWinner(matchId, winnerId) on the collection db with this.status = st;
\* yields the collection and this.status afterwards.  match.player1 is never
\* null where the method is called (a bye has player1, a consensus needs the
\* claims of both players).
advanceWinner(db, st, matchId, winnerId) ==
    IF ~Found(db, matchId) THEN [db |-> db, status |-> st]
    ELSE LET match == db[matchId] IN
         IF match.nextMatchId # None
         THEN IF Found(db, match.nextMatchId)
              THEN LET winner == IF match.player1 = winnerId THEN match.player1
                                                              ELSE match.player2
                       nextMatch == markScheduled(
                                      placeWinner(db[match.nextMatchId],
                                                  match.nextMatchSlot, winner))
                   IN  [db |-> [db EXCEPT ![match.nextMatchId] = nextMatch],
                        status |-> st]
              ELSE [db |-> db, status |-> st]
         ELSE [db |-> db, status |-> "completed"]

\* variant: the loop ends after the first bye it advances
RECURSIVE advanceByes_firstOnly(_, _, _)
advanceByes_firstOnly(all, cur, i) ==
    IF i > Len(all) THEN cur
    ELSE IF all[i].status = "completed" /\ all[i].winner # None
    THEN advanceWinner(cur.db, cur.status, i, all[i].winner)
    ELSE advanceByes_firstOnly(all, cur, i + 1)

\* for (const match of allMatches) if (match.status === 'completed' && match.winner)
\*     await this.advanceWinner(match._id, match.winner)
\* from the i-th match on; the loop reads the documents it created, the
\* method reads and writes the collection
RECURSIVE advanceByes(_, _, _)
advanceByes(all, cur, i) ==
    IF i > Len(all) THEN cur
    ELSE advanceByes(all,
                     IF all[i].status = "completed" /\ all[i].winner # None
                     THEN advanceWinner(cur.db, cur.status, i, all[i].winner)
                     ELSE cur,
                     i + 1)

\* generateBracket() for a shuffled roster: the collection and this.status
generateBracket(shuf) ==
    LET all == AllMatches(shuf)
    IN  advanceByes(all, [db |-> all, status |-> "active"], 1)

\* variant: the link to the successor is removed once the winner is advanced
finalizeMatch_unlinks(db, st, matchId, match, winnerId, scores, time) ==
    LET done == [match EXCEPT !.result = [winner |-> winnerId, scores |-> scores,
                                          timestamp |-> time],
                              !.status = "completed",
                              !.nextMatchId = None]
        adv  == advanceWinner(db, st, matchId, winnerId)
    IN  [db |-> [adv.db EXCEPT ![matchId] = done], status |-> adv.status]

\* finalizeMatch(match, winnerId, scores) followed by the match.save() of
\* submitResult: the loaded document with its claim recorded is `match`
finalizeMatch(db, st, matchId, match, winnerId, scores, time) ==
    LET done == [match EXCEPT !.result = [winner |-> winnerId, scores |-> scores,
                                          timestamp |-> time],
                              !.status = "completed"]
        adv  == advanceWinner(db, st, matchId, winnerId)
    IN  [db |-> [adv.db EXCEPT ![matchId] = done], status |-> adv.status]

\* if (claim1 && claim2)
bothClaimed(match) == HasClaim(match, match.player1) /\ HasClaim(match, match.player2)

\* waiting for the other player
awaitConfirmation(match) == [match EXCEPT !.status = "awaiting_confirmation"]

\* conflict: mark for dispute
markDispute(match) == [match EXCEPT !.status = "dispute"]

\* variant: the claimed winner is advanced on the first claim already, before
\* the other player has confirmed
submitResult_advancesOnClaim(db, st, matchId, userId, winnerId, scores, time) ==
    LET loaded == db[matchId]
        match  == [loaded EXCEPT !.claims = SetClaim(loaded.claims, userId,
                                     [winnerId |-> winnerId, scores |-> scores])]
    IN  IF bothClaimed(match)
        THEN LET claim1 == match.claims[match.player1]
                 claim2 == match.claims[match.player2]
             IN  IF claim1.winnerId = claim2.winnerId
                 THEN finalizeMatch(db, st, matchId, match, claim1.winnerId,
                                    claim1.scores, time)
                 ELSE [db |-> [db EXCEPT ![matchId] = markDispute(match)], status |-> st]
        ELSE LET adv == advanceWinner(db, st, matchId, winnerId)
             IN  [db |-> [adv.db EXCEPT ![matchId] = awaitConfirmation(match)],
                  status |-> adv.status]

\* variant: the result takes the scores of the call that reached consensus
submitResult_callScores(db, st, matchId, userId, winnerId, scores, time) ==
    LET loaded == db[matchId]
        match  == [loaded EXCEPT !.claims = SetClaim(loaded.claims, userId,
                                     [winnerId |-> winnerId, scores |-> scores])]
    IN  IF bothClaimed(match)
        THEN LET claim1 == match.claims[match.player1]
                 claim2 == match.claims[match.player2]
             IN  IF claim1.winnerId = claim2.winnerId
                 THEN finalizeMatch(db, st, matchId, match, claim1.winnerId,
                                    scores, time)
                 ELSE [db |-> [db EXCEPT ![matchId] = markDispute(match)], status |-> st]
        ELSE [db |-> [db EXCEPT ![matchId] = awaitConfirmation(match)], status |-> st]

\* submitResult(matchId, userId, winnerId, scores) on a match that exists
submitResult(db, st, matchId, userId, winnerId, scores, time) ==
    LET loaded == db[matchId]
        match  == [loaded EXCEPT !.claims = SetClaim(loaded.claims, userId,
                                     [winnerId |-> winnerId, scores |-> scores])]
    IN  IF bothClaimed(match)
        THEN LET claim1 == match.claims[match.player1]
                 claim2 == match.claims[match.player2]
             IN  IF claim1.winnerId = claim2.winnerId
                 THEN finalizeMatch(db, st, matchId, match, claim1.winnerId,
                                    claim1.scores, time)
                 ELSE [db |-> [db EXCEPT ![matchId] = markDispute(match)], status |-> st]
        ELSE [db |-> [db EXCEPT ![matchId] = awaitConfirmation(match)], status |-> st]

\* what submitResult(matchId, ...) returns: null for an unknown id, else the match
submitResultReturns(db, matchId) == IF Found(db, matchId) THEN "match" ELSE "null"

\* variant: the stored bracket is not looked up
alreadyExists_never(has) == FALSE

\* if (tournamentBrackets.has(tournamentId)) return 400 'Bracket already exists'
alreadyExists(has) == has

\* variant: a roster of one is let through
tooFew_offByOne(count) == count < 1

\* if (tournament.participants.length < 2) return 400 'Need at least 2 participants'
tooFew(count) == count < 2

\* what POST /api/tournament/:id/generate-bracket answers
generateBracketResponds(has, count) ==
    IF alreadyExists(has) THEN "400 Bracket already exists"
    ELSE IF tooFew(count) THEN "400 Need at least 2 participants"
    ELSE "bracket"

\* getBracketData(): the matches of the collection with the rounds and the
\* status of the Tournament document
getBracketData ==
    [matches |-> matches, rounds |-> tournament.rounds, status |-> tournament.status]

\* the two slot participants of a match (None for an empty slot)
Players(m) == {matches[m].player1, matches[m].player2} \ {None}

\* no generateBracket call is in progress
NoBuild == [pc |-> "idle", i |-> 0]

\* no submitResult call is in progress
NoCalls == <<>>

\* no generate-bracket request has been made
NoRequests == <<>>

\* no RealtimeManager has been constructed
NoRealtime ==
    [ws |-> "none", connected |-> FALSE, reconnectAttempts |-> 0, timer |-> FALSE,
     subscriptions |-> <<>>, replaying |-> FALSE, cursor |-> 0, atOpen |-> 0]

\* --------------------------------------------------------------- actions
Init ==
    /\ \E n \in Rosters : participants = [i \in 1..n |-> i]
    /\ tournament = [status |-> "Open", rounds |-> <<>>]
    /\ hasBracket = FALSE
    /\ status = "none"
    /\ shuffled = <<>>
    /\ matches = <<>>
    /\ now = 0
    /\ build = NoBuild
    /\ calls = NoCalls
    /\ requests = NoRequests
    /\ rt = NoRealtime

\* POST /api/tournament/:id/generate-bracket when a bracket is already
\* stored: 400 'Bracket already exists'
GenerateBracketExists ==
    /\ alreadyExists(hasBracket)
    /\ UNCHANGED vars

\* ... with fewer than 2 participants: 400 'Need at least 2 participants'
GenerateBracketTooFew ==
    /\ ~alreadyExists(hasBracket)
    /\ tooFew(Len(participants))
    /\ UNCHANGED vars

\* ... building and storing the bracket
GenerateBracket ==
    /\ ~alreadyExists(hasBracket)
    /\ ~tooFew(Len(participants))
    /\ \E p \in Shuffles(Len(participants)) :
          LET shuf  == [i \in 1..Len(participants) |-> participants[p[i]]]
              built == generateBracket(shuf)
          IN  /\ shuffled' = shuf
              /\ matches' = built.db
              /\ status' = built.status
              /\ tournament' = [status |-> "Active",
                                rounds |-> [i \in 1..RoundCount(Len(shuf)) |-> i]]
    /\ hasBracket' = TRUE
    /\ UNCHANGED <<requests, rt, participants, now, build, calls>>

\* bracket.submitResult(matchId, userId, winnerId, scores) for an id that is
\* no match of the collection: returns null
SubmitResultNotFound ==
    /\ hasBracket
    /\ \E matchId \in {Len(matches) + 1} : ~Found(matches, matchId)
    /\ UNCHANGED vars

\* bracket.submitResult(matchId, userId, winnerId, scores) for a match of the
\* collection: returns the match
SubmitResult(matchId, userId, winnerId, scores) ==
    /\ hasBracket
    /\ Found(matches, matchId)
    /\ LET out == submitResult(matches, status, matchId, userId, winnerId, scores, now + 1)
       IN  /\ matches' = out.db
           /\ status' = out.status
    /\ now' = now + 1
    /\ UNCHANGED <<requests, rt, participants, tournament, hasBracket, shuffled, build, calls>>

SubmitAnyResult ==
    /\ now < MaxSubmits
    /\ \E matchId \in DOMAIN matches, userId \in UserIds(Len(participants)),
          winnerId \in UserIds(Len(participants)), scores \in Scores :
           SubmitResult(matchId, userId, winnerId, scores)

\* bracket.getBracketData(): a read
GetBracketData ==
    /\ hasBracket
    /\ UNCHANGED vars

Next ==
    \/ GetBracketData
    \/ GenerateBracketExists
    \/ GenerateBracketTooFew
    \/ GenerateBracket
    \/ SubmitResultNotFound
    \/ SubmitAnyResult

Spec == Init /\ [][Next]_vars

\* The same operations with fewer calls, all carrying the same score token (no
\* operation branches on scores): small enough to be explored in full with a
\* roster of MaxN + 1 as well.
SubmitShortResult ==
    /\ now < MaxShort
    /\ \E matchId \in DOMAIN matches, userId \in UserIds(Len(participants)),
          winnerId \in UserIds(Len(participants)), scores \in OneScore :
           SubmitResult(matchId, userId, winnerId, scores)

NextShort ==
    \/ GetBracketData
    \/ GenerateBracketExists
    \/ GenerateBracketTooFew
    \/ GenerateBracket
    \/ SubmitResultNotFound
    \/ SubmitShortResult

SpecShort == Init /\ [][NextShort]_vars

\* The matches as their players use them: every call is made by a player of
\* the match and names one of its players.  Fewer inputs per call, so longer
\* behaviours: a bracket is played through to its final and beyond.
SubmitPlayResult ==
    /\ now < MaxPlay
    /\ \E matchId \in DOMAIN matches :
          \E userId \in Players(matchId), winnerId \in Players(matchId),
             scores \in OneScore :
              SubmitResult(matchId, userId, winnerId, scores)

NextPlay ==
    \/ GetBracketData
    \/ GenerateBracketExists
    \/ GenerateBracketTooFew
    \/ GenerateBracket
    \/ SubmitResultNotFound
    \/ SubmitPlayResult

SpecPlay == Init /\ [][NextPlay]_vars

\* The players' calls with scores that differ from call to call.
SubmitScoredResult ==
    /\ now < MaxScored
    /\ \E matchId \in DOMAIN matches :
          \E userId \in Players(matchId), winnerId \in Players(matchId),
             scores \in Scores :
              SubmitResult(matchId, userId, winnerId, scores)

NextScores ==
    \/ GetBracketData
    \/ GenerateBracketExists
    \/ GenerateBracketTooFew
    \/ GenerateBracket
    \/ SubmitResultNotFound
    \/ SubmitScoredResult

SpecScores == Init /\ [][NextScores]_vars

\* Agreeing play: a participant of a match that is scheduled or awaits
\* confirmation, who holds no claim on it yet, submits one; the second claim
\* names the winner the first one named.  Every participant eventually
\* submits (weak fairness), and a requested bracket is eventually built.
InitFair ==
    /\ \E n \in 0..MaxFair : participants = [i \in 1..n |-> i]
    /\ tournament = [status |-> "Open", rounds |-> <<>>]
    /\ hasBracket = FALSE
    /\ status = "none"
    /\ shuffled = <<>>
    /\ matches = <<>>
    /\ now = 0
    /\ build = NoBuild
    /\ calls = NoCalls
    /\ requests = NoRequests
    /\ rt = NoRealtime

SubmitAgreeingResult ==
    \E matchId \in DOMAIN matches :
        /\ matches[matchId].status \in {"scheduled", "awaiting_confirmation"}
        /\ \E userId \in Players(matchId) \ DOMAIN matches[matchId].claims :
              LET named == {matches[matchId].claims[v].winnerId :
                               v \in Players(matchId) \cap DOMAIN matches[matchId].claims}
              IN  \E winnerId \in (IF named = {} THEN Players(matchId) ELSE named),
                     scores \in OneScore :
                      SubmitResult(matchId, userId, winnerId, scores)

NextFair ==
    \/ GetBracketData
    \/ GenerateBracketExists
    \/ GenerateBracketTooFew
    \/ GenerateBracket
    \/ SubmitResultNotFound
    \/ SubmitAgreeingResult

SpecFair ==
    /\ InitFair
    /\ [][NextFair]_vars
    /\ WF_vars(GenerateBracket)
    /\ WF_vars(SubmitAgreeingResult)

\* The build alone, for rosters up to MaxBuild and every shuffle of them.
InitBuild ==
    /\ \E n \in 0..MaxBuild : participants = [i \in 1..n |-> i]
    /\ tournament = [status |-> "Open", rounds |-> <<>>]
    /\ hasBracket = FALSE
    /\ status = "none"
    /\ shuffled = <<>>
    /\ matches = <<>>
    /\ now = 0
    /\ build = NoBuild
    /\ calls = NoCalls
    /\ requests = NoRequests
    /\ rt = NoRealtime

NextBuild ==
    \/ GetBracketData
    \/ GenerateBracketExists
    \/ GenerateBracketTooFew
    \/ GenerateBracket

SpecBuild == InitBuild /\ [][NextBuild]_vars

\* The build as the route runs it.  The constructor calls generateBracket()
\* without awaiting it: the method runs up to its first await (the matches are
\* made in memory and Match.insertMany is issued), the constructor returns and
\* the route stores the bracket in tournamentBrackets.  The insert, every
\* advanceWinner of the bye loop and the Tournament update take place later,
\* one at a time, while other requests are served.
BuildStart ==
    /\ build.pc = "idle"
    /\ ~alreadyExists(hasBracket)
    /\ ~tooFew(Len(participants))
    /\ \E p \in Shuffles(Len(participants)) :
          shuffled' = [i \in 1..Len(participants) |-> participants[p[i]]]
    /\ status' = "active"
    /\ hasBracket' = TRUE
    /\ build' = [pc |-> "insert", i |-> 0]
    /\ UNCHANGED <<requests, rt, participants, tournament, matches, now, calls>>

\* await Match.insertMany(allMatches)
BuildInsert ==
    /\ build.pc = "insert"
    /\ matches' = AllMatches(shuffled)
    /\ build' = [pc |-> "byes", i |-> 1]
    /\ UNCHANGED <<requests, rt, participants, tournament, hasBracket, status, shuffled, now, calls>>

\* one iteration of the bye loop over allMatches: advanceWinner for a
\* completed match with a winner (its reads and its one save, with no other
\* writer of the successor under way)
BuildBye ==
    /\ build.pc = "byes"
    /\ build.i <= Len(AllMatches(shuffled))
    /\ LET match == AllMatches(shuffled)[build.i]
           adv == advanceWinner(matches, status, build.i, match.winner)
       IN  IF match.status = "completed" /\ match.winner # None
           THEN matches' = adv.db /\ status' = adv.status
           ELSE UNCHANGED <<matches, status>>
    /\ build' = [build EXCEPT !.i = @ + 1]
    /\ UNCHANGED <<requests, rt, participants, tournament, hasBracket, shuffled, now, calls>>

\* await Tournament.findByIdAndUpdate(...) after the loop
BuildUpdate ==
    /\ build.pc = "byes"
    /\ build.i > Len(AllMatches(shuffled))
    /\ tournament' = [status |-> "Active",
                      rounds |-> [i \in 1..RoundCount(Len(shuffled)) |-> i]]
    /\ build' = [pc |-> "done", i |-> 0]
    /\ UNCHANGED <<requests, rt, participants, hasBracket, status, shuffled, matches, now, calls>>

NextBuildSteps ==
    \/ GetBracketData
    \/ GenerateBracketExists
    \/ GenerateBracketTooFew
    \/ BuildStart
    \/ BuildInsert
    \/ BuildBye
    \/ BuildUpdate

SpecBuildSteps == InitBuild /\ [][NextBuildSteps]_vars

\* submitResult as the event loop runs it: the code between two awaits runs
\* as one step, and other calls run between the steps.  Each call works on
\* the documents it loaded; save() writes the paths the call has changed.
Callers == {1, 2}

\* a document not loaded yet
NoDoc == Match(0, None, None, None, "none")

\* match.save(): the stored document after the paths are written in which the
\* local document differs from the loaded one, and the claim set under key
\* (none for a successor)
saveDoc(stored, loaded, local, key) ==
    [stored EXCEPT
        !.status  = IF local.status # loaded.status THEN local.status ELSE @,
        !.player1 = IF local.player1 # loaded.player1 THEN local.player1 ELSE @,
        !.player2 = IF local.player2 # loaded.player2 THEN local.player2 ELSE @,
        !.result  = IF local.result # loaded.result THEN local.result ELSE @,
        !.claims  = IF key = None THEN @ ELSE SetClaim(@, key, local.claims[key])]

\* the call of caller c without its entry / with its entry replaced
Dropped(c) == [k \in DOMAIN calls \ {c} |-> calls[k]]
Updated(c, call) == [k \in DOMAIN calls \cup {c} |-> IF k = c THEN call ELSE calls[k]]

\* const match = await this.getMatch(matchId), then up to the next await:
\* the claim is set, the claims are compared and the status (and, on
\* consensus, the result) is assigned on the loaded document
CallLoad(c, matchId, userId, winnerId, scores) ==
    /\ hasBracket
    /\ c \notin DOMAIN calls
    /\ \A k \in Callers : k < c => k \in DOMAIN calls
    /\ Found(matches, matchId)
    /\ LET loaded  == matches[matchId]
           claimed == [loaded EXCEPT !.claims = SetClaim(loaded.claims, userId,
                                       [winnerId |-> winnerId, scores |-> scores])]
           agreed  == /\ bothClaimed(claimed)
                      /\ claimed.claims[claimed.player1].winnerId
                            = claimed.claims[claimed.player2].winnerId
           local   == IF agreed
                      THEN [claimed EXCEPT
                              !.result = [winner |-> claimed.claims[claimed.player1].winnerId,
                                          scores |-> claimed.claims[claimed.player1].scores,
                                          timestamp |-> now + 1],
                              !.status = "completed"]
                      ELSE IF bothClaimed(claimed) THEN markDispute(claimed)
                      ELSE awaitConfirmation(claimed)
       IN  calls' = Updated(c, [pc |-> IF agreed THEN "advance" ELSE "save",
                                matchId |-> matchId, userId |-> userId,
                                loaded |-> loaded, match |-> local,
                                feeder |-> NoDoc, nextLoaded |-> NoDoc, next |-> NoDoc])
    /\ now' = now + 1
    /\ UNCHANGED <<requests, rt, participants, tournament, hasBracket, status, shuffled, matches, build>>

StartCall ==
    /\ now < MaxRace
    /\ \E c \in Callers, matchId \in DOMAIN matches :
          \E userId \in Players(matchId), winnerId \in Players(matchId),
             scores \in OneScore :
              CallLoad(c, matchId, userId, winnerId, scores)

\* advanceWinner: const match = await this.getMatch(matchId); without a
\* nextMatchId this.status = 'completed'
CallAdvanceLoad ==
    \E c \in DOMAIN calls :
        /\ calls[c].pc = "advance"
        /\ LET feeder == matches[calls[c].matchId]
           IN  IF feeder.nextMatchId # None
               THEN /\ calls' = Updated(c, [calls[c] EXCEPT !.pc = "next",
                                                            !.feeder = feeder])
                    /\ status' = status
               ELSE /\ calls' = Updated(c, [calls[c] EXCEPT !.pc = "save"])
                    /\ status' = "completed"
        /\ UNCHANGED <<requests, rt, participants, tournament, hasBracket, shuffled, matches, now, build>>

\* const nextMatch = await this.getMatch(match.nextMatchId), then the slot
\* and the status are assigned on the loaded successor
CallNextLoad ==
    \E c \in DOMAIN calls :
        /\ calls[c].pc = "next"
        /\ LET feeder == calls[c].feeder
               nextLoaded == matches[feeder.nextMatchId]
               winnerId == calls[c].match.result.winner
               winner == IF feeder.player1 = winnerId THEN feeder.player1
                                                      ELSE feeder.player2
           IN  calls' = Updated(c, [calls[c] EXCEPT
                           !.pc = "savenext",
                           !.nextLoaded = nextLoaded,
                           !.next = markScheduled(placeWinner(nextLoaded,
                                                    feeder.nextMatchSlot, winner))])
        /\ UNCHANGED <<requests, rt, participants, tournament, hasBracket, status, shuffled,
                       matches, now, build>>

\* await nextMatch.save()
CallNextSave ==
    \E c \in DOMAIN calls :
        /\ calls[c].pc = "savenext"
        /\ matches' = [matches EXCEPT ![calls[c].feeder.nextMatchId] =
                          saveDoc(@, calls[c].nextLoaded, calls[c].next, None)]
        /\ calls' = Updated(c, [calls[c] EXCEPT !.pc = "save"])
        /\ UNCHANGED <<requests, rt, participants, tournament, hasBracket, status, shuffled, now, build>>

\* await match.save(); return match
CallSave ==
    \E c \in DOMAIN calls :
        /\ calls[c].pc = "save"
        /\ matches' = [matches EXCEPT ![calls[c].matchId] =
                          saveDoc(@, calls[c].loaded, calls[c].match, calls[c].userId)]
        /\ calls' = Dropped(c)
        /\ UNCHANGED <<requests, rt, participants, tournament, hasBracket, status, shuffled, now, build>>

InitRace ==
    /\ \E n \in 0..MaxRaceN : participants = [i \in 1..n |-> i]
    /\ tournament = [status |-> "Open", rounds |-> <<>>]
    /\ hasBracket = FALSE
    /\ status = "none"
    /\ shuffled = <<>>
    /\ matches = <<>>
    /\ now = 0
    /\ build = NoBuild
    /\ calls = NoCalls
    /\ requests = NoRequests
    /\ rt = NoRealtime

NextRace ==
    \/ GetBracketData
    \/ GenerateBracketExists
    \/ GenerateBracketTooFew
    \/ GenerateBracket
    \/ SubmitResultNotFound
    \/ StartCall
    \/ CallAdvanceLoad
    \/ CallNextLoad
    \/ CallNextSave
    \/ CallSave

SpecRace == InitRace /\ [][NextRace]_vars

TypeOK ==
    /\ hasBracket \in BOOLEAN
    /\ status \in {"none", "active", "completed"}
    /\ now \in 0..MaxSubmits
    /\ \A id \in DOMAIN matches :
          matches[id].status \in {"pending", "scheduled", "awaiting_confirmation",
                                  "dispute", "completed"}

\* ------------------------------------------------------------ properties
\* the calls submitResult(m, u, w, s) that this step can be: the call has
\* left its claim in the match
Submitted ==
    {c \in UNION {{<<m, u, matches'[m].claims[u].winnerId, matches'[m].claims[u].scores>> :
                      u \in DOMAIN matches'[m].claims} : m \in DOMAIN matches'} :
        SubmitResult(c[1], c[2], c[3], c[4])}

\* the slot of match m's successor that m feeds, in the next state
SuccessorSlot(m) ==
    LET next == matches'[matches[m].nextMatchId]
    IN  IF matches[m].nextMatchSlot = "player1" THEN next.player1 ELSE next.player2

\* every match but m is the same after the step
OthersUnchanged(m) ==
    /\ DOMAIN matches' = DOMAIN matches
    /\ \A k \in DOMAIN matches : k # m => matches'[k] = matches[k]

\* C1: when a submitResult call leaves a schedulable match with the claims of
\* both of its participants naming the same participant as winner, the match
\* is completed, its winner field holds that participant, its result is set
\* and the successor's slot named by nextMatchSlot holds that participant.
C1_Consensus ==
    [][\A c \in Submitted :
          LET m == c[1] u == c[2] w == c[3] s == c[4] IN
          (/\ matches[m].status \in {"scheduled", "awaiting_confirmation"}
           /\ matches[m].nextMatchId # None
           /\ Cardinality(Players(m)) = 2
           /\ u \in Players(m)
           /\ w \in Players(m)
           /\ \A p \in Players(m) : p \in DOMAIN matches'[m].claims
                                     /\ matches'[m].claims[p].winnerId = w)
          => /\ matches'[m].status = "completed"
             /\ matches'[m].winner = w
             /\ matches'[m].result # NoResult
             /\ matches[m].nextMatchId # None => SuccessorSlot(m) = w]_vars

\* C2: when a submitResult call leaves a match with the claims of both of its
\* participants naming different winners, the match is in dispute, its
\* winner is empty, it has no result, and no other match has changed.
C2_Dispute ==
    [][\A c \in Submitted :
          LET m == c[1] u == c[2] w == c[3] s == c[4] IN
          (/\ Cardinality(Players(m)) = 2
           /\ Players(m) \subseteq DOMAIN matches'[m].claims
           /\ matches'[m].claims[matches[m].player1].winnerId
                 # matches'[m].claims[matches[m].player2].winnerId)
          => /\ matches'[m].status = "dispute"
             /\ matches'[m].winner = None
             /\ matches'[m].result = NoResult
             /\ OthersUnchanged(m)
             /\ status' = status]_vars

\* C3: a submitResult call on a completed match fails with NotSchedulable and
\* changes no match.
C3_CompletedRejects ==
    [][\A c \in Submitted :
          LET m == c[1] u == c[2] w == c[3] s == c[4] IN
          (matches[m].status = "completed")
          => /\ submitResultReturns(matches, m) = "NotSchedulable"
             /\ matches' = matches]_vars

\* C4: a submitResult call by a user who is in neither slot of the match
\* fails with NotAParticipant and leaves the match's claims and status alone.
C4_NonParticipantRejected ==
    [][\A c \in Submitted :
          LET m == c[1] u == c[2] w == c[3] s == c[4] IN
          (u \notin Players(m))
          => /\ submitResultReturns(matches, m) = "NotAParticipant"
             /\ matches'[m].claims = matches[m].claims
             /\ matches'[m].status = matches[m].status]_vars

\* C5: a submitResult call on a pending or disputed match fails with
\* MatchNotSchedulable and leaves the match as it was.
C5_PendingDisputeRejects ==
    [][\A c \in Submitted :
          LET m == c[1] u == c[2] w == c[3] s == c[4] IN
          (matches[m].status \in {"pending", "dispute"})
          => /\ submitResultReturns(matches, m) = "MatchNotSchedulable"
             /\ matches'[m] = matches[m]]_vars

\* C6: every match holds at most 2 claims, each keyed by one of its two slot
\* participants.
C6_ClaimsOfPlayers ==
    \A m \in DOMAIN matches :
        /\ Cardinality(DOMAIN matches[m].claims) <= 2
        /\ DOMAIN matches[m].claims \subseteq Players(m)

C8_ResultWrittenOnce ==
    [][\A m \in DOMAIN matches :
          matches[m].result # NoResult
          => m \in DOMAIN matches' /\ matches'[m].result = matches[m].result]_vars

\* C9: a scheduled match has both slots filled.
C9_ScheduledHasBothSlots ==
    \A m \in DOMAIN matches :
        matches[m].status = "scheduled"
        => matches[m].player1 # None /\ matches[m].player2 # None

\* a match of a later round was scheduled by the advancement that filled its
\* second slot
C9_Witness ==
    \E m \in DOMAIN matches :
        /\ matches[m].round >= 2
        /\ matches[m].status = "scheduled"
        /\ matches[m].player1 # None /\ matches[m].player2 # None
        /\ now > 0

\* C10: when a submitResult call leaves a match with the claim of exactly one
\* of its slot participants, the match is awaiting confirmation and, the
\* claims apart, nothing else of it and no other match has changed.
C10_AwaitingFrame ==
    [][\A c \in Submitted :
          LET m == c[1] u == c[2] w == c[3] s == c[4] IN
          (/\ Cardinality(Players(m) \cap DOMAIN matches'[m].claims) = 1)
          => /\ matches'[m] = [matches[m] EXCEPT !.status = "awaiting_confirmation",
                                                 !.claims = matches'[m].claims]
             /\ OthersUnchanged(m)
             /\ status' = status]_vars

\* a scheduled match took the claim of one participant and awaits the other
C10_Witness ==
    \E m \in DOMAIN matches :
        /\ Cardinality(Players(m)) = 2
        /\ Cardinality(Players(m) \cap DOMAIN matches[m].claims) = 1
        /\ matches[m].status = "awaiting_confirmation"
        /\ matches[m].winner = None /\ matches[m].result = NoResult

\* the matches whose successor is match k
Feeders(k) == {m \in DOMAIN matches : matches[m].nextMatchId = k}

\* the first-round matches with exactly one filled slot
Byes ==
    {m \in DOMAIN matches :
        /\ matches[m].round = 1
        /\ (matches[m].player1 = None) # (matches[m].player2 = None)}

\* the match without a successor
Finals == {m \in DOMAIN matches : matches[m].nextMatchId = None}

\* C11: when a participant of a two-player match who already holds a claim
\* submits again while the counterpart holds none, the stored claim becomes
\* the submitted one, no claim is added, and the match has the status a first
\* submission leaves it in, awaiting_confirmation.
C11_Resubmission ==
    [][\A m \in DOMAIN matches : \A u \in Players(m) :
          (/\ hasBracket
           /\ Cardinality(Players(m)) = 2
           /\ u \in DOMAIN matches[m].claims
           /\ (Players(m) \ {u}) \cap DOMAIN matches[m].claims = {})
          => \A w \in UserIds(Len(participants)) : \A s \in Scores :
                SubmitResult(m, u, w, s)
                => /\ DOMAIN matches'[m].claims = DOMAIN matches[m].claims
                   /\ matches'[m].claims[u] = [winnerId |-> w, scores |-> s]
                   /\ \A k \in DOMAIN matches[m].claims :
                         k # u => matches'[m].claims[k] = matches[m].claims[k]
                   /\ matches'[m].status = "awaiting_confirmation"]_vars

\* two calls were made and one participant's claim is all the bracket holds
C11_Witness ==
    /\ now = 2
    /\ \E m \in DOMAIN matches : \E u \in Players(m) :
          /\ Cardinality(Players(m)) = 2
          /\ DOMAIN matches[m].claims = {u}
          /\ matches[m].status = "awaiting_confirmation"
          /\ \A k \in DOMAIN matches : k # m => matches[k].claims = NoClaims

\* C12: a submitResult call that finalizes the match without a successor
\* sets the bracket status to completed and changes no other match.
C12_FinalCompletesBracket ==
    [][\A c \in Submitted :
          LET m == c[1] IN
          (/\ matches[m].nextMatchId = None
           /\ matches'[m].status = "completed"
           /\ matches'[m].result.timestamp = now')
          => /\ status' = "completed"
             /\ OthersUnchanged(m)]_vars

\* the final of a bracket of three matches is finalized and the bracket is
\* completed
C12_Witness ==
    /\ Len(matches) >= 3
    /\ status = "completed"
    /\ \E m \in Finals : matches[m].status = "completed" /\ matches[m].result # NoResult

\* the status words of the Tournament document and of the bracket, compared
\* without regard to case
LowerCase(word) == IF word = "Active" THEN "active" ELSE word

\* C13 as stated: a snapshot reports active while the bracket is active and
\* completed once the final match is finalized.
C13_SnapshotStatus ==
    hasBracket =>
        /\ status = "active" => LowerCase(getBracketData.status) = "active"
        /\ (\E m \in Finals : matches[m].result # NoResult)
              => LowerCase(getBracketData.status) = "completed"

\* C14: a built bracket of n participants has ceil(log2(n)) rounds, round r
\* holds 2^(rounds - r) matches, and the matches number 2^rounds - 1.
C14_RoundSizes ==
    hasBracket =>
        LET n == Len(participants)
            rounds == Len(tournament.rounds)
        IN  /\ rounds >= 1
            /\ Pow2(rounds) >= n
            /\ Pow2(rounds - 1) < n
            /\ tournament.rounds = [r \in 1..rounds |-> r]
            /\ \A m \in DOMAIN matches : matches[m].round \in 1..rounds
            /\ \A r \in 1..rounds :
                  Cardinality({m \in DOMAIN matches : matches[m].round = r})
                      = Pow2(rounds - r)
            /\ Len(matches) = Pow2(rounds) - 1

\* five participants were built into three rounds of four, two and one match
C14_Witness ==
    /\ hasBracket
    /\ Len(participants) = 5
    /\ Len(tournament.rounds) = 3
    /\ Cardinality({m \in DOMAIN matches : matches[m].round = 1}) = 4
    /\ Cardinality({m \in DOMAIN matches : matches[m].round = 2}) = 2

\* C15: in a built bracket every first-round match with exactly one filled
\* slot is completed with the present participant as winner, and there are
\* bracket size minus n of them.
C15_Byes ==
    hasBracket =>
        /\ \A m \in Byes :
              /\ now = 0 => matches[m].status = "completed"
              /\ matches[m].status # "scheduled"
              /\ matches[m].winner # None
              /\ matches[m].winner \in {matches[m].player1, matches[m].player2}
        /\ Cardinality(Byes) = Pow2(Len(tournament.rounds)) - Len(participants)

\* five participants in a bracket of eight leave three byes
C15_Witness ==
    /\ hasBracket
    /\ Len(participants) = 5
    /\ Cardinality(Byes) = 3
    /\ \A m \in Byes : matches[m].status = "completed"

\* C16: after the build every completed match with a winner and a successor
\* has its winner in the successor slot it feeds, and a second-round match
\* fed by two byes is scheduled.
C16_ByesPropagated ==
    (hasBracket /\ now = 0) =>
        /\ \A m \in DOMAIN matches :
              (/\ matches[m].status = "completed"
               /\ matches[m].winner # None
               /\ matches[m].nextMatchId # None)
              => LET next == matches[matches[m].nextMatchId]
                 IN  matches[m].winner =
                       (IF matches[m].nextMatchSlot = "player1" THEN next.player1
                                                                ELSE next.player2)
        /\ \A k \in DOMAIN matches :
              (Cardinality(Feeders(k)) = 2 /\ Feeders(k) \subseteq Byes)
              => /\ matches[k].status = "scheduled"
                 /\ matches[k].player1 # None /\ matches[k].player2 # None

\* a second-round match received both of its players from byes
C16_Witness ==
    /\ hasBracket /\ now = 0
    /\ \E k \in DOMAIN matches :
          /\ Cardinality(Feeders(k)) = 2
          /\ Feeders(k) \subseteq Byes
          /\ matches[k].status = "scheduled"

\* C17: exactly one match has no successor and it is in the last round; every
\* other match has a successor in the next round and a slot name; every match
\* after the first round has exactly two feeders, one for each slot.
C17_SuccessorTree ==
    hasBracket =>
        /\ Cardinality(Finals) = 1
        /\ \A m \in Finals : matches[m].round = Len(tournament.rounds)
        /\ \A m \in DOMAIN matches \ Finals :
              /\ Found(matches, matches[m].nextMatchId)
              /\ matches[matches[m].nextMatchId].round = matches[m].round + 1
              /\ matches[m].nextMatchSlot \in {"player1", "player2"}
        /\ \A k \in DOMAIN matches :
              matches[k].round >= 2
              => /\ Cardinality(Feeders(k)) = 2
                 /\ {matches[m].nextMatchSlot : m \in Feeders(k)} = {"player1", "player2"}

\* a bracket of seven matches whose final is fed by the two semifinals
C17_Witness ==
    /\ hasBracket
    /\ Len(matches) = 7
    /\ \E k \in Finals : \A m \in Feeders(k) : matches[m].round = 2 /\ Feeders(m) # {}

\* C18: a roster of fewer than two participants never has a bracket or a
\* match, and a build request for it is answered with the error.
C18_TooFewRejected ==
    Len(participants) < 2 =>
        /\ ~hasBracket
        /\ matches = <<>>
        /\ status = "none"
        /\ generateBracketResponds(hasBracket, Len(participants))
              = "400 Need at least 2 participants"

\* a roster of one is asked for a bracket and has none
C18_Witness ==
    /\ Len(participants) = 1
    /\ ~hasBracket
    /\ ENABLED GenerateBracketTooFew

\* C19: once a bracket exists a build request is answered with the error and
\* the bracket stays: the seeding and the Tournament document never change
\* again, and matches and status change only through a result submission.
C19_RebuildRejected ==
    [][hasBracket =>
          /\ generateBracketResponds(hasBracket, Len(participants))
                = "400 Bracket already exists"
          /\ hasBracket'
          /\ shuffled' = shuffled
          /\ tournament' = tournament
          /\ now' = now => (matches' = matches /\ status' = status)]_vars

\* a bracket holding a claim is asked to be built again
C19_Witness ==
    /\ hasBracket
    /\ \E m \in DOMAIN matches : matches[m].claims # NoClaims
    /\ ENABLED GenerateBracketExists

\* C20 as stated: a submitResult call on a match that was already finalized
\* and advanced leaves the successor's slots and status as they are.
C20_NoReadvance ==
    [][\A c \in Submitted :
          LET m == c[1] IN
          (/\ matches[m].result # NoResult
           /\ matches[m].nextMatchId # None)
          => LET next == matches[m].nextMatchId
             IN  /\ matches'[next].player1 = matches[next].player1
                 /\ matches'[next].player2 = matches[next].player2
                 /\ matches'[next].status = matches[next].status]_vars

\* the status changes the match state machine allows
StatusEdges ==
    {<<"pending", "scheduled">>, <<"scheduled", "awaiting_confirmation">>,
     <<"awaiting_confirmation", "completed">>, <<"scheduled", "dispute">>,
     <<"awaiting_confirmation", "dispute">>, <<"pending", "completed">>}

\* C23 as stated: every status change of a match is one of the allowed edges;
\* in particular none leaves completed or dispute.
C23_StatusEdges ==
    [][\A m \in DOMAIN matches :
          (m \in DOMAIN matches' /\ matches'[m].status # matches[m].status)
          => <<matches[m].status, matches'[m].status>> \in StatusEdges]_vars

\* the slot participants of match m that hold a claim
LiveClaims(m) == Players(m) \cap DOMAIN matches[m].claims

\* C26 as stated: awaiting_confirmation only with exactly one slot participant
\* holding a claim, dispute only with both holding claims that name different
\* winners, scheduled only with neither holding a claim.
C26_StatusAgreesWithClaims ==
    \A m \in DOMAIN matches :
        /\ matches[m].status = "awaiting_confirmation"
              => Cardinality(LiveClaims(m)) = 1
        /\ matches[m].status = "dispute"
              => /\ Cardinality(LiveClaims(m)) = 2
                 /\ \E a, b \in LiveClaims(m) :
                       matches[m].claims[a].winnerId # matches[m].claims[b].winnerId
        /\ matches[m].status = "scheduled" => LiveClaims(m) = {}

\* C27 as stated: once a match has left pending its two slot occupants never
\* change.
C27_SlotsFixedAfterPending ==
    [][\A m \in DOMAIN matches :
          (m \in DOMAIN matches' /\ matches[m].status # "pending")
          => /\ matches'[m].player1 = matches[m].player1
             /\ matches'[m].player2 = matches[m].player2]_vars

\* C28: the i-th first-round match (i from 0, below half the bracket size) has
\* position i of the shuffled roster in slot 1 and position size - 1 - i in
\* slot 2, empty when that position is beyond the roster.
C28_PairingFold ==
    hasBracket =>
        LET n == Len(shuffled)
            size == Pow2(Len(tournament.rounds))
        IN  /\ {shuffled[i] : i \in 1..n} = {participants[i] : i \in 1..n}
            /\ n = Len(participants)
            /\ \A i \in 0..((size \div 2) - 1) :
                  /\ matches[i + 1].round = 1
                  /\ matches[i + 1].player1 = shuffled[i + 1]
                  /\ matches[i + 1].player2 =
                        (IF size - 1 - i < n THEN shuffled[size - i] ELSE None)

\* five participants folded into four matches: the first has a bye, the last
\* pairs positions 3 and 4
C28_Witness ==
    /\ hasBracket
    /\ Len(shuffled) = 5
    /\ matches[1].player2 = None
    /\ matches[4].player1 = shuffled[4] /\ matches[4].player2 = shuffled[5]

\* the winner a match holds: the winner field, or the winner of its result
WinnerOf(m) ==
    IF matches[m].winner # None THEN matches[m].winner ELSE matches[m].result.winner

\* the occupant of the named slot of match k
SlotOf(k, slot) == IF slot = "player1" THEN matches[k].player1 ELSE matches[k].player2

\* C30 as stated: every filled slot of a match after the first round holds
\* the winner of the feeder wired to it, and that feeder is completed.
C30_SlotsHoldFeederWinners ==
    \A k \in DOMAIN matches : \A m \in Feeders(k) :
        SlotOf(k, matches[m].nextMatchSlot) # None
        => /\ matches[m].status = "completed"
           /\ WinnerOf(m) = SlotOf(k, matches[m].nextMatchSlot)

\* the step is the call c and finalizes its match
Finalizes(c) ==
    /\ matches'[c[1]].status = "completed"
    /\ matches'[c[1]].result.timestamp = now'

\* C29 as stated: the scores of the result are those of the call that
\* reached consensus, whichever participant made it.
C29_TriggeringScores ==
    [][\A c \in Submitted :
          Finalizes(c) => matches'[c[1]].result.scores = c[4]]_vars

\* C29 amended: the scores of the result are those of the claim of the
\* participant in slot 1: the scores of the call when that participant made
\* it, the scores of the earlier claim when the participant in slot 2 did.
C29_ScoresOfSlotOne ==
    [][\A c \in Submitted :
          LET m == c[1] u == c[2] s == c[4] IN
          Finalizes(c)
          => /\ matches'[m].result.winner = c[3]
             /\ u = matches[m].player1 => matches'[m].result.scores = s
             /\ u # matches[m].player1
                   => /\ matches[m].player1 \in DOMAIN matches[m].claims
                      /\ matches'[m].result.scores
                            = matches[m].claims[matches[m].player1].scores]_vars

\* two calls reached consensus with different scores, and the result has
\* those of slot 1
C29_Witness ==
    /\ now = 2
    /\ \E m \in DOMAIN matches :
          /\ matches[m].status = "completed"
          /\ matches[m].result.timestamp = 2
          /\ matches[m].claims[matches[m].player1].scores
                # matches[m].claims[matches[m].player2].scores
          /\ matches[m].result.scores = matches[m].claims[matches[m].player1].scores

\* under agreeing play a roster of two or more leads to a completed bracket
\* whose matches are all completed
BracketCompletes ==
    (Len(participants) >= 2)
        ~> (status = "completed"
            /\ \A m \in DOMAIN matches : matches[m].status = "completed")

\* C24 as stated, in the state agreeing play ends in: the bracket is
\* completed, every match is completed and the final holds a winner.
C24_ChampionEmerges ==
    status = "completed"
    => /\ \A m \in DOMAIN matches : matches[m].status = "completed"
       /\ \A m \in Finals : matches[m].winner # None

\* the build run to its end leaves what generateBracket(shuffled) yields
BuildStepsAgree ==
    build.pc = "done"
    => /\ matches = generateBracket(shuffled).db
       /\ status = generateBracket(shuffled).status

\* C22 as stated: whenever the bracket can be looked up, a read of it shows
\* all 2^rounds - 1 matches, every nextMatchId naming a match that exists, and
\* every bye winner in the successor slot it feeds.
C22_BuildAppearsAtomic ==
    hasBracket =>
        LET seen == getBracketData.matches
        IN  /\ Len(seen) = Pow2(CeilLog2(Len(participants))) - 1
            /\ \A m \in DOMAIN seen :
                  seen[m].nextMatchId # None
                  => /\ Found(seen, seen[m].nextMatchId)
                     /\ (seen[m].status = "completed" /\ seen[m].winner # None)
                           => seen[m].winner
                                = (IF seen[m].nextMatchSlot = "player1"
                                   THEN seen[seen[m].nextMatchId].player1
                                   ELSE seen[seen[m].nextMatchId].player2)

\* C21 as stated: once the calls of the two participants of a match, the only
\* two calls made, have both returned, the match is as after one call and
\* then the other: completed with the winner advanced when the claims agree,
\* in dispute when they differ.
C21_SerialOutcome ==
    (DOMAIN calls = {} /\ now = 2) =>
        \A m \in DOMAIN matches :
            (Cardinality(Players(m)) = 2 /\ Players(m) \subseteq DOMAIN matches[m].claims)
            => LET claim1 == matches[m].claims[matches[m].player1]
                   claim2 == matches[m].claims[matches[m].player2]
               IN  IF claim1.winnerId = claim2.winnerId
                   THEN /\ matches[m].status = "completed"
                        /\ matches[m].result.winner = claim1.winnerId
                        /\ matches[m].nextMatchId # None
                              => SlotOf(matches[m].nextMatchId, matches[m].nextMatchSlot)
                                    = claim1.winnerId
                   ELSE matches[m].status = "dispute"

\* C25 as stated: once the calls have returned, a match with both slots
\* filled is not pending.
C25_SiblingsSchedule ==
    DOMAIN calls = {} =>
        \A k \in DOMAIN matches :
            (matches[k].player1 # None /\ matches[k].player2 # None)
            => matches[k].status # "pending"

\* C31 as stated: a match is completed exactly when its winner is set, and
\* the winner of a completed match is one of its two slot participants.
C31_CompletedIffWinner ==
    \A m \in DOMAIN matches :
        /\ (matches[m].status = "completed") <=> (matches[m].winner # None)
        /\ matches[m].status = "completed" => matches[m].winner \in Players(m)

\* the first-round slots that hold participant u
SlotsOf(u) ==
    {<<m, slot>> \in (DOMAIN matches) \X {"player1", "player2"} :
        matches[m].round = 1 /\ SlotOf(m, slot) = u}

\* C32: every participant occupies exactly one first-round slot, the two
\* slots of a match never hold the same participant, and slot 1 of every
\* first-round match is filled.
C32_SeedingIsPermutation ==
    hasBracket =>
        /\ \A i \in 1..Len(participants) : Cardinality(SlotsOf(participants[i])) = 1
        /\ \A m \in DOMAIN matches :
              matches[m].round = 1
              => /\ matches[m].player1 # None
                 /\ matches[m].player1 # matches[m].player2
                 /\ Players(m) \subseteq {participants[i] : i \in 1..Len(participants)}

\* five participants are seeded: one first-round match is played, three are
\* byes
C32_Witness ==
    /\ hasBracket
    /\ Len(participants) = 5
    /\ Cardinality({m \in DOMAIN matches :
                       matches[m].round = 1 /\ Cardinality(Players(m)) = 2}) = 1
    /\ \A i \in 1..5 : SlotsOf(i) # {}

\* C33 as stated: while at most two calls have been made, a successor slot
\* fed by a match of two participants is filled only when that match is
\* stored as completed.
C33_PredecessorFirst ==
    now <= 2 =>
        \A k \in DOMAIN matches : \A m \in Feeders(k) :
            (Cardinality(Players(m)) = 2 /\ SlotOf(k, matches[m].nextMatchSlot) # None)
            => matches[m].status = "completed"

\* C34: after the build no step adds, removes or rewires a match, and a
\* submitResult call on a match changes that match and its direct successor
\* only.
C34_StructureFrame ==
    [][hasBracket =>
          /\ DOMAIN matches' = DOMAIN matches
          /\ \A m \in DOMAIN matches :
                /\ m \in DOMAIN matches'
                /\ matches'[m].round = matches[m].round
                /\ matches'[m].nextMatchId = matches[m].nextMatchId
                /\ matches'[m].nextMatchSlot = matches[m].nextMatchSlot
          /\ \A c \in Submitted : \A k \in DOMAIN matches :
                (k # c[1] /\ k # matches[c[1]].nextMatchId)
                => matches'[k] = matches[k]]_vars

\* a call finalized a match of a bracket of three matches or more and filled
\* a slot of its successor
C34_Witness ==
    /\ Len(matches) >= 3
    /\ \E m \in DOMAIN matches :
          /\ matches[m].result # NoResult
          /\ matches[m].nextMatchId # None
          /\ SlotOf(matches[m].nextMatchId, matches[m].nextMatchSlot)
                = matches[m].result.winner

----------------------------------------------------------------------------
(* Two generate-bracket requests for one tournament.  The route checks      *)
(* tournamentBrackets.has, then awaits Tournament.findById, and only after  *)
(* that constructs the bracket and stores it in the map; the constructor    *)
(* starts generateBracket, which runs up to its first await (insertMany)    *)
(* before the route goes on.  A request is therefore four steps.            *)

\* the documents of one bracket as they sit in the collection after those of
\* earlier brackets: fresh ObjectIds, so the links move with the documents
shifted(all, base) ==
    [i \in 1..Len(all) |->
        [all[i] EXCEPT !.nextMatchId = IF @ = None THEN None ELSE @ + base]]

\* the collection with one bracket's documents replaced by seg
withSegment(db, base, seg) ==
    [k \in 1..Len(db) |->
        IF k > base /\ k <= base + Len(seg) THEN seg[k - base] ELSE db[k]]

\* requests that constructed a bracket and stored it in the map
Built == {c \in DOMAIN requests : requests[c].pc \in {"insert", "byes", "done"}}

\* the has check of the route, answered 400 or followed by the findById
RequestCheck(c) ==
    /\ c \notin DOMAIN requests
    /\ requests' = [k \in DOMAIN requests \cup {c} |->
                        IF k = c
                        THEN [pc |-> IF alreadyExists(hasBracket)
                                     THEN "exists" ELSE "findById",
                              shuf |-> <<>>, base |-> 0]
                        ELSE requests[k]]
    /\ UNCHANGED <<rt, participants, tournament, hasBracket, status, shuffled,
                   matches, now, build, calls>>

\* findById resolved: the participant check, the constructor with the
\* synchronous part of generateBracket, tournamentBrackets.set and the answer
RequestConstruct(c) ==
    /\ c \in DOMAIN requests
    /\ requests[c].pc = "findById"
    /\ IF tooFew(Len(participants))
       THEN /\ requests' = [requests EXCEPT ![c].pc = "tooFew"]
            /\ UNCHANGED <<hasBracket, status, shuffled>>
       ELSE /\ \E p \in Shuffles(Len(participants)) :
                  LET shuf == [i \in 1..Len(participants) |-> participants[p[i]]]
                  IN  /\ shuffled' = shuf
                      /\ requests' = [requests EXCEPT ![c].pc = "insert",
                                                      ![c].shuf = shuf]
            /\ hasBracket' = TRUE
            /\ status' = "active"
    /\ UNCHANGED <<rt, participants, tournament, matches, now, build, calls>>

\* insertMany resolved: the bracket's documents are in the collection
RequestInsert(c) ==
    /\ c \in DOMAIN requests
    /\ requests[c].pc = "insert"
    /\ matches' = matches \o shifted(AllMatches(requests[c].shuf), Len(matches))
    /\ requests' = [requests EXCEPT ![c].pc = "byes", ![c].base = Len(matches)]
    /\ UNCHANGED <<rt, participants, tournament, hasBracket, status, shuffled,
                   now, build, calls>>

\* the bye loop over the bracket's own documents and the Tournament update
RequestByes(c) ==
    /\ c \in DOMAIN requests
    /\ requests[c].pc = "byes"
    /\ matches' = withSegment(matches, requests[c].base,
                              shifted(generateBracket(requests[c].shuf).db,
                                      requests[c].base))
    /\ tournament' = [status |-> "Active",
                      rounds |-> [i \in 1..RoundCount(Len(requests[c].shuf)) |-> i]]
    /\ requests' = [requests EXCEPT ![c].pc = "done"]
    /\ UNCHANGED <<rt, participants, hasBracket, status, shuffled, now, build, calls>>

NextRequests ==
    \/ \E c \in Callers : RequestCheck(c)
    \/ \E c \in Callers : RequestConstruct(c)
    \/ \E c \in Callers : RequestInsert(c)
    \/ \E c \in Callers : RequestByes(c)
    \/ GetBracketData

SpecRequests == Init /\ [][NextRequests]_vars

\* C35: of two concurrent generate-bracket requests at most one builds and
\* stores a bracket (the other is answered "already exists"), and the
\* tournament never holds more matches than one bracket has.
C35_OneBracketBuilt ==
    /\ Cardinality(Built) <= 1
    /\ (\A c \in Callers : c \in DOMAIN requests /\ requests[c].pc \in {"exists", "done"})
          => \E c \in Callers : requests[c].pc = "exists"
    /\ hasBracket => Len(matches) <= Pow2(CeilLog2(Len(participants))) - 1

----------------------------------------------------------------------------
(* The RealtimeManager of a client: one socket at a time, a reconnect timer *)
(* and the Set of subscriptions.  The Set holds objects, so two             *)
(* subscriptions of the same type and id are two elements; it is kept as    *)
(* the sequence of its elements in insertion order, which is the order      *)
(* forEach visits them in, elements added during the visit included.        *)

\* this.maxReconnectAttempts
maxReconnectAttempts == 5

\* most elements the Set is followed to
MaxSubs == 4

\* most reconnect attempts the counter is followed to
MaxFailures == 7

\* ids a client subscribes to
SubIds == {1, 2}

\* scheduleReconnect: the counter goes up and a timer is set
scheduleReconnect(r) == [r EXCEPT !.reconnectAttempts = @ + 1, !.timer = TRUE]

\* initializeWebSocket when new WebSocket returns a socket
connecting(r) == [r EXCEPT !.ws = "connecting"]

\* handleDisconnection: a reconnect while the counter is below the maximum
handleDisconnection(r) ==
    IF r.reconnectAttempts < maxReconnectAttempts THEN scheduleReconnect(r) ELSE r

\* subscribe: a new object is added to the Set on both paths, and the message
\* is sent when connected
subscribe(r, id) == [r EXCEPT !.subscriptions = Append(@, id)]

\* position of the first stored subscription of an id, 0 when there is none
firstOf(subs, id) ==
    IF \E i \in 1..Len(subs) : subs[i] = id
    THEN CHOOSE i \in 1..Len(subs) :
            subs[i] = id /\ \A j \in 1..(i - 1) : subs[j] # id
    ELSE 0

\* unsubscribe: the first stored subscription of the id is deleted
unsubscribe(r, id) ==
    LET at == firstOf(r.subscriptions, id)
    IN  IF at = 0 THEN r
        ELSE [r EXCEPT !.subscriptions =
                 [i \in 1..(Len(@) - 1) |-> IF i < at THEN @[i] ELSE @[i + 1]]]

\* the states after the constructor, whose initializeWebSocket either got a
\* socket or caught the exception of new WebSocket
InitRealtime ==
    /\ participants = <<>>
    /\ tournament = [status |-> "Open", rounds |-> <<>>]
    /\ hasBracket = FALSE
    /\ status = "none"
    /\ shuffled = <<>>
    /\ matches = <<>>
    /\ now = 0
    /\ build = NoBuild
    /\ calls = NoCalls
    /\ requests = NoRequests
    /\ rt \in {connecting(NoRealtime), scheduleReconnect(NoRealtime)}

Server == <<participants, tournament, hasBracket, status, shuffled, matches, now,
            build, calls, requests>>

\* the reconnect timer fires and new WebSocket returns a socket
InitializeWebSocket ==
    /\ rt.timer
    /\ ~rt.replaying
    /\ rt' = connecting([rt EXCEPT !.timer = FALSE])
    /\ UNCHANGED Server

\* the reconnect timer fires and new WebSocket throws: the catch block
\* schedules the next attempt
InitializeWebSocketThrows ==
    /\ rt.timer
    /\ ~rt.replaying
    /\ rt.reconnectAttempts < MaxFailures
    /\ rt' = scheduleReconnect([rt EXCEPT !.timer = FALSE])
    /\ UNCHANGED Server

\* onopen up to the forEach over the stored subscriptions
OnOpen ==
    /\ rt.ws = "connecting"
    /\ rt' = [rt EXCEPT !.ws = "open", !.connected = TRUE, !.reconnectAttempts = 0,
                        !.replaying = TRUE, !.cursor = 0,
                        !.atOpen = Len(rt.subscriptions)]
    /\ UNCHANGED Server

\* one visit of the forEach in onopen: subscribe with the element's type and id
ReplayStep ==
    /\ rt.replaying
    /\ rt.cursor < Len(rt.subscriptions)
    /\ Len(rt.subscriptions) < MaxSubs
    /\ rt' = [subscribe(rt, rt.subscriptions[rt.cursor + 1]) EXCEPT !.cursor = @ + 1]
    /\ UNCHANGED Server

\* the forEach has visited every element: the rest of onopen
ReplayDone ==
    /\ rt.replaying
    /\ rt.cursor = Len(rt.subscriptions)
    /\ rt' = [rt EXCEPT !.replaying = FALSE, !.cursor = 0, !.atOpen = 0]
    /\ UNCHANGED Server

OnError ==
    /\ rt.ws \in {"connecting", "open"}
    /\ ~rt.replaying
    /\ rt' = [rt EXCEPT !.connected = FALSE]
    /\ UNCHANGED Server

OnClose ==
    /\ rt.ws \in {"connecting", "open"}
    /\ ~rt.replaying
    /\ rt' = handleDisconnection([rt EXCEPT !.ws = "closed", !.connected = FALSE])
    /\ UNCHANGED Server

Subscribe ==
    /\ ~rt.replaying
    /\ Len(rt.subscriptions) < MaxSubs
    /\ \E id \in SubIds : rt' = subscribe(rt, id)
    /\ UNCHANGED Server

Unsubscribe ==
    /\ ~rt.replaying
    /\ \E id \in SubIds : rt' = unsubscribe(rt, id)
    /\ UNCHANGED Server

NextRealtime ==
    \/ InitializeWebSocket
    \/ InitializeWebSocketThrows
    \/ OnOpen
    \/ ReplayStep
    \/ ReplayDone
    \/ OnError
    \/ OnClose
    \/ Subscribe
    \/ Unsubscribe

SpecRealtime == InitRealtime /\ [][NextRealtime]_vars

\* C36: while onopen replays the stored subscriptions it sends one subscribe
\* message per subscription stored when the socket opened, and the
\* subscription set keeps the size it had then.
C36_ReplayKeepsSet ==
    rt.replaying => /\ rt.cursor <= rt.atOpen
                    /\ Len(rt.subscriptions) = rt.atOpen

\* C37: reconnectAttempts never exceeds maxReconnectAttempts, whatever
\* open, close, error and failed-construction events occur.
C37_RetryBound == rt.reconnectAttempts <= maxReconnectAttempts

----------------------------------------------------------------------------
(* The roster of an open tournament: the register route and the payment     *)
(* route both push onto tournament.participants.  Requests are taken one    *)
(* whole request after the other.                                           *)

\* tournament.maxPlayers
MaxPlayers == 3

\* the users making requests
Users == 1..(MaxPlayers + 2)

Listed(parts, u) == \E i \in 1..Len(parts) : parts[i] = u

\* the answer of the register route
registerResponds(t, parts, u) ==
    IF t.status # "Open" THEN "closed"
    ELSE IF Len(parts) >= MaxPlayers THEN "full"
    ELSE IF Listed(parts, u) THEN "already"
    ELSE "registered"

\* the roster after the payment route: a successful payment registers the
\* user unless already listed
processPayment(parts, u, isSuccess) ==
    IF isSuccess /\ ~Listed(parts, u) THEN Append(parts, u) ELSE parts

InitRoster ==
    /\ participants = <<>>
    /\ tournament = [status |-> "Open", rounds |-> <<>>]
    /\ hasBracket = FALSE
    /\ status = "none"
    /\ shuffled = <<>>
    /\ matches = <<>>
    /\ now = 0
    /\ build = NoBuild
    /\ calls = NoCalls
    /\ requests = NoRequests
    /\ rt = NoRealtime

Register ==
    /\ \E u \in Users :
          /\ registerResponds(tournament, participants, u) = "registered"
          /\ participants' = Append(participants, u)
    /\ UNCHANGED <<requests, rt, tournament, hasBracket, status, shuffled, matches,
                   now, build, calls>>

RegisterRejected ==
    /\ \E u \in Users : registerResponds(tournament, participants, u) # "registered"
    /\ UNCHANGED vars

ProcessPayment ==
    /\ \E u \in Users, isSuccess \in BOOLEAN :
          participants' = processPayment(participants, u, isSuccess)
    /\ UNCHANGED <<requests, rt, tournament, hasBracket, status, shuffled, matches,
                   now, build, calls>>

NextRoster ==
    \/ Register
    \/ RegisterRejected
    \/ ProcessPayment

SpecRoster == InitRoster /\ [][NextRoster]_vars

\* C38: the participant list never names a user twice and never has more
\* than maxPlayers entries, whatever registrations and successful payments
\* are made.
C38_RosterCapacity ==
    /\ \A i, j \in 1..Len(participants) :
          i # j => participants[i] # participants[j]
    /\ Len(participants) <= MaxPlayers

====
